---- MODULE Spec2Model ----
(***************************************************************************)
(* A model of cpu_stress.c: the orchestrator (main), the worker threads    *)
(* (worker_thread), the console control handler (ConsoleCtrlHandler) and   *)
(* the stop flag g_stop_flag they share.                                   *)
(*                                                                         *)
(* Command-line arguments are sequences of one-character strings, so that  *)
(* atoi is modelled by what it parses.  Time is counted in milliseconds    *)
(* of the Sleep call and advances one second per Tick.  The Win32 calls    *)
(* are modelled by their documented results at the call sites.             *)
(***************************************************************************)
EXTENDS Integers, Sequences, FiniteSets, TLC

(***************************************************************************)
(* Bounds of the model.                                                    *)
(***************************************************************************)
MaxCpus == 2
MaxDuration == 2
MaxInterrupts == 2

(***************************************************************************)
(* Program constants.                                                      *)
(***************************************************************************)
EXIT_SUCCESS == 0
EXIT_FAILURE == 1
CTRL_C_EVENT == 0
CTRL_BREAK_EVENT == 1
CTRL_CLOSE_EVENT == 2
CTRL_LOGOFF_EVENT == 5
CTRL_SHUTDOWN_EVENT == 6
MAXIMUM_WAIT_OBJECTS == 64
MsPerSecond == 1000
DwordBits == 32

NULL == 0
NoInterrupt == <<>>

VARIABLES
    argv,            \* argv[1..argc-1], each a sequence of characters
    numProcs,        \* si.dwNumberOfProcessors as the OS reports it
    pc,              \* position of main
    exit_status,     \* value returned by main (-1 while running)
    duration,        \* int duration
    num_cpus,        \* int num_cpus
    num_threads,     \* int num_threads
    registered,      \* SetConsoleCtrlHandler succeeded
    threads,         \* HANDLE* threads: 0 (NULL) or a worker's handle
    i,               \* loop index of the spawn loop
    g_stop_flag,     \* static volatile LONG g_stop_flag
    workers,         \* the created threads, by handle
    sleep_ms,        \* DWORD argument of the Sleep call
    elapsed,         \* time of the Sleep call elapsed
    wait_result,     \* result of WaitForMultipleObjects
    closed,          \* handles given to CloseHandle
    out,             \* lines written to stdout
    err,             \* the lines written to stderr
    attempts,        \* history: CreateThread calls per index
    interrupts,      \* history: control events the handler has handled
    intrAt,          \* history: elapsed at the first handled event during Sleep
    handler_result   \* history: last value returned by the handler

vars == <<argv, numProcs, pc, exit_status, duration, num_cpus, num_threads,
          registered, threads, i, g_stop_flag, workers, sleep_ms, elapsed,
          wait_result, closed, out, err, attempts, interrupts, intrAt,
          handler_result>>

(***************************************************************************)
(* atoi: optional white space, optional sign, then decimal digits up to    *)
(* the first character that is not a digit.                                *)
(***************************************************************************)
IsSpace(c) == c \in {" ", "\t", "\n"}

IsDigit(c) == c \in {"0", "1", "2", "3", "4", "5", "6", "7", "8", "9"}

DigitVal(c) ==
    CASE c = "0" -> 0 [] c = "1" -> 1 [] c = "2" -> 2 [] c = "3" -> 3
      [] c = "4" -> 4 [] c = "5" -> 5 [] c = "6" -> 6 [] c = "7" -> 7
      [] c = "8" -> 8 [] c = "9" -> 9

RECURSIVE SkipSpace(_)
SkipSpace(s) ==
    IF s # <<>> /\ IsSpace(Head(s)) THEN SkipSpace(Tail(s)) ELSE s

RECURSIVE ParseDigits(_, _)
ParseDigits(s, acc) ==
    IF s = <<>> \/ ~IsDigit(Head(s))
    THEN acc
    ELSE ParseDigits(Tail(s), acc * 10 + DigitVal(Head(s)))

atoi(s) ==
    LET t == SkipSpace(s) IN
    IF t = <<>> THEN 0
    ELSE IF Head(t) = "-" THEN 0 - ParseDigits(Tail(t), 0)
    ELSE IF Head(t) = "+" THEN ParseDigits(Tail(t), 0)
    ELSE ParseDigits(t, 0)

(***************************************************************************)
(* The inputs: decimal numerals, and text that is no numeral.  Every       *)
(* duration is run with the thread count omitted; the thread-count         *)
(* requests are run with the durations that are rejected and with the      *)
(* shortest one.                                                           *)
(***************************************************************************)
DigitChar(d) ==
    CASE d = 0 -> "0" [] d = 1 -> "1" [] d = 2 -> "2" [] d = 3 -> "3"
      [] d = 4 -> "4" [] d = 5 -> "5" [] d = 6 -> "6" [] d = 7 -> "7"
      [] d = 8 -> "8" [] d = 9 -> "9"

RECURSIVE Numeral(_)
Numeral(n) ==
    IF n < 0 THEN <<"-">> \o Numeral(0 - n)
    ELSE IF n < 10 THEN <<DigitChar(n)>>
    ELSE Numeral(n \div 10) \o <<DigitChar(n % 10)>>

DurationArgs ==
    {Numeral(n) : n \in (-1)..MaxDuration} \cup {<<"x">>, <<"1", "x">>}

ThreadArgs ==
    {Numeral(n) : n \in (-1)..(MaxCpus + 1)}
        \cup {<<" ", "+", "1", "x">>}

ShortDurationArgs == {d \in DurationArgs : atoi(d) <= 1}

ArgVectors ==
    {<<>>} \cup {<<d>> : d \in DurationArgs}
           \cup {<<d, t>> : d \in ShortDurationArgs, t \in ThreadArgs}

argc == Len(argv) + 1

(***************************************************************************)
(* Configuration (lines 65-72).                                            *)
(***************************************************************************)
NumCpus(n) == IF n < 1 THEN 1 ELSE n

RequestedThreads(args, cpus) ==
    IF Len(args) + 1 >= 3 THEN atoi(args[2]) ELSE cpus

\* Faulty variant: the upper clamp of line 72 is missing.
ClampThreads_NoUpper(req, cpus) == IF req <= 0 THEN 1 ELSE req

ClampThreads(req, cpus) ==
    LET low == IF req <= 0 THEN 1 ELSE req
    IN  IF low > cpus THEN cpus ELSE low

(***************************************************************************)
(* The stop flag.                                                          *)
(***************************************************************************)
\* Faulty variant: the store flips the flag instead of setting it.
InterlockedExchange_Toggle(target, value) == 1 - target

InterlockedExchange(target, value) == value

StopRequested(flag) == flag # 0

(***************************************************************************)
(* How each access to g_stop_flag is written.  main (line 107) and the     *)
(* handler (line 14) store with InterlockedExchange, an atomic exchange    *)
(* with a full barrier.  The threads read with if (g_stop_flag), line 37:  *)
(* a read of a volatile LONG, which the compiler emits as one aligned      *)
(* 32-bit load in every iteration, with no ordering of its own (MSVC       *)
(* gives it acquire ordering only under /volatile:ms).  All accesses are   *)
(* to this one location, so each load comes after or before each store     *)
(* and WorkerCheck reads the value last stored.                            *)
(***************************************************************************)
FlagAccess ==
    [main    |-> "InterlockedExchange",
     handler |-> "InterlockedExchange",
     worker  |-> "volatile read"]

\* Faulty variant: the log-off event is handled like the other four.
HandledCtrlTypes_WithLogoff ==
    {CTRL_C_EVENT, CTRL_BREAK_EVENT, CTRL_CLOSE_EVENT, CTRL_LOGOFF_EVENT,
     CTRL_SHUTDOWN_EVENT}

HandledCtrlTypes ==
    {CTRL_C_EVENT, CTRL_BREAK_EVENT, CTRL_CLOSE_EVENT, CTRL_SHUTDOWN_EVENT}

CtrlTypes == HandledCtrlTypes \cup {CTRL_LOGOFF_EVENT}

(***************************************************************************)
(* Sleep((DWORD)duration * 1000): the product is a 32-bit unsigned value.  *)
(* A DWORD is kept as its two 16-bit halves [hi, lo], and a time as whole   *)
(* seconds and milliseconds [sec, ms].                                     *)
(***************************************************************************)
Half == 2 ^ (DwordBits \div 2)

SleepArg(d) ==
    LET p == (d % Half) * MsPerSecond
    IN  [hi |-> ((d \div Half) * MsPerSecond + p \div Half) % Half,
         lo |-> p % Half]

DwordTime(dw) ==
    LET rest == dw.hi * (Half % MsPerSecond) + dw.lo
    IN  [sec |-> dw.hi * (Half \div MsPerSecond) + rest \div MsPerSecond,
         ms  |-> rest % MsPerSecond]

TimeBefore(a, b) == a.sec < b.sec \/ (a.sec = b.sec /\ a.ms < b.ms)

ZeroTime == [sec |-> 0, ms |-> 0]

(***************************************************************************)
(* Worker threads.                                                         *)
(***************************************************************************)
AffinityMask(cpu_index) == 2 ^ cpu_index

NewWorker(param) ==
    [cpu_index |-> param, pc |-> "pin", mask |-> 0, worked |-> FALSE]

Handles == 1..Len(workers)

Running(h) == workers[h].pc \in {"pin", "check", "batch"}

Alive == pc # "done"

(***************************************************************************)
(* return from main: the process ends and with it every thread that is     *)
(* still running.                                                          *)
(***************************************************************************)
ExitProcess(ws) ==
    [h \in DOMAIN ws |->
        IF ws[h].pc = "exited" THEN ws[h]
        ELSE [ws[h] EXCEPT !.pc = "terminated"]]

Init ==
    /\ argv \in ArgVectors
    /\ numProcs \in 0..MaxCpus
    /\ pc = "args"
    /\ exit_status = -1
    /\ duration = 0
    /\ num_cpus = 0
    /\ num_threads = 0
    /\ registered = FALSE
    /\ threads = <<>>
    /\ i = 0
    /\ g_stop_flag = 0
    /\ workers = <<>>
    /\ sleep_ms = SleepArg(0)
    /\ elapsed = ZeroTime
    /\ wait_result = "none"
    /\ closed = {}
    /\ out = <<>>
    /\ err = {}
    /\ attempts = <<>>
    /\ interrupts = 0
    /\ intrAt = NoInterrupt
    /\ handler_result = "none"

(***************************************************************************)
(* main, lines 54-63: argument validation.                                 *)
(***************************************************************************)
MainUsage ==
    /\ pc = "args"
    /\ argc < 2
    /\ err' = err \cup {<<"Uso">>}
    /\ exit_status' = EXIT_FAILURE
    /\ pc' = "done"
    /\ workers' = ExitProcess(workers)
    /\ UNCHANGED <<argv, numProcs, duration, num_cpus, num_threads,
                   registered, threads, i, g_stop_flag, sleep_ms, elapsed,
                   wait_result, closed, out, attempts, interrupts, intrAt,
                   handler_result>>

MainBadDuration ==
    /\ pc = "args"
    /\ argc >= 2
    /\ atoi(argv[1]) <= 0
    /\ duration' = atoi(argv[1])
    /\ err' = err \cup {<<"Duracao invalida">>}
    /\ exit_status' = EXIT_FAILURE
    /\ pc' = "done"
    /\ workers' = ExitProcess(workers)
    /\ UNCHANGED <<argv, numProcs, num_cpus, num_threads, registered, threads,
                   i, g_stop_flag, sleep_ms, elapsed, wait_result, closed,
                   out, attempts, interrupts, intrAt, handler_result>>

(***************************************************************************)
(* main, lines 59-75: the configuration and its report.                    *)
(***************************************************************************)
MainConfigure ==
    /\ pc = "args"
    /\ argc >= 2
    /\ atoi(argv[1]) > 0
    /\ duration' = atoi(argv[1])
    /\ num_cpus' = NumCpus(numProcs)
    /\ num_threads' = ClampThreads(RequestedThreads(argv, num_cpus'), num_cpus')
    /\ out' = Append(out, <<"Estressando", duration', num_threads', num_cpus'>>)
    /\ pc' = "register"
    /\ UNCHANGED <<argv, numProcs, exit_status, registered, threads, i,
                   g_stop_flag, workers, sleep_ms, elapsed, wait_result,
                   closed, err, attempts, interrupts, intrAt, handler_result>>

(***************************************************************************)
(* main, lines 77-79: SetConsoleCtrlHandler succeeds or fails.             *)
(***************************************************************************)
\* Faulty variant: a failed registration ends the run with failure.
MainRegister_Fatal ==
    /\ pc = "register"
    /\ \E ok \in BOOLEAN :
          /\ registered' = ok
          /\ err' = IF ok THEN err ELSE err \cup {<<"Aviso">>}
          /\ pc' = IF ok THEN "alloc" ELSE "done"
          /\ exit_status' = IF ok THEN exit_status ELSE EXIT_FAILURE
    /\ workers' = workers
    /\ UNCHANGED <<argv, numProcs, duration, num_cpus, num_threads, threads,
                   i, g_stop_flag, sleep_ms, elapsed, wait_result, closed,
                   out, attempts, interrupts, intrAt, handler_result>>

MainRegister ==
    /\ pc = "register"
    /\ \E ok \in BOOLEAN :
          /\ registered' = ok
          /\ err' = IF ok THEN err ELSE err \cup {<<"Aviso">>}
    /\ pc' = "alloc"
    /\ UNCHANGED <<argv, numProcs, exit_status, duration, num_cpus,
                   num_threads, threads, i, g_stop_flag, workers, sleep_ms,
                   elapsed, wait_result, closed, out, attempts, interrupts,
                   intrAt, handler_result>>

(***************************************************************************)
(* main, lines 83-87: calloc returns a zeroed array or NULL.               *)
(***************************************************************************)
MainAlloc ==
    /\ pc = "alloc"
    /\ threads' = [k \in 1..num_threads |-> NULL]
    /\ attempts' = [k \in 1..num_threads |-> 0]
    /\ i' = 0
    /\ pc' = "spawn"
    /\ UNCHANGED <<argv, numProcs, exit_status, duration, num_cpus,
                   num_threads, registered, g_stop_flag, workers, sleep_ms,
                   elapsed, wait_result, closed, out, err, interrupts, intrAt,
                   handler_result>>

MainAllocFails ==
    /\ pc = "alloc"
    /\ err' = err \cup {<<"Erro de memoria">>}
    /\ exit_status' = EXIT_FAILURE
    /\ pc' = "done"
    /\ workers' = ExitProcess(workers)
    /\ UNCHANGED <<argv, numProcs, duration, num_cpus, num_threads,
                   registered, threads, i, g_stop_flag, sleep_ms, elapsed,
                   wait_result, closed, out, attempts, interrupts, intrAt,
                   handler_result>>

(***************************************************************************)
(* main, lines 89-103: one iteration of the spawn loop.  CreateThread      *)
(* returns a handle to a new thread that runs worker_thread(i), or NULL.   *)
(* Index i of the C array is index i + 1 of the sequence.                  *)
(***************************************************************************)
\* Faulty variant: the thread is given the number of threads created so far.
SpawnParam_Created(index) == Len(workers)

SpawnParam(index) == index

\* Faulty variant: the loop is left at the first CreateThread failure.
MainSpawn_StopAtFailure ==
    /\ pc = "spawn"
    /\ i < num_threads
    /\ attempts' = [attempts EXCEPT ![i + 1] = @ + 1]
    /\ \/ /\ workers' = Append(workers, NewWorker(SpawnParam(i)))
          /\ threads' = [threads EXCEPT ![i + 1] = Len(workers) + 1]
          /\ err' = err
          /\ i' = i + 1
       \/ /\ threads' = [threads EXCEPT ![i + 1] = NULL]
          /\ err' = err \cup {<<"Erro ao criar thread", i>>}
          /\ workers' = workers
          /\ i' = num_threads
    /\ UNCHANGED <<argv, numProcs, pc, exit_status, duration, num_cpus,
                   num_threads, registered, g_stop_flag, sleep_ms, elapsed,
                   wait_result, closed, out, interrupts, intrAt,
                   handler_result>>

MainSpawn ==
    /\ pc = "spawn"
    /\ i < num_threads
    /\ attempts' = [attempts EXCEPT ![i + 1] = @ + 1]
    /\ \/ /\ workers' = Append(workers, NewWorker(SpawnParam(i)))
          /\ threads' = [threads EXCEPT ![i + 1] = Len(workers) + 1]
          /\ err' = err
       \/ /\ threads' = [threads EXCEPT ![i + 1] = NULL]
          /\ err' = err \cup {<<"Erro ao criar thread", i>>}
          /\ workers' = workers
    /\ i' = i + 1
    /\ UNCHANGED <<argv, numProcs, pc, exit_status, duration, num_cpus,
                   num_threads, registered, g_stop_flag, sleep_ms, elapsed,
                   wait_result, closed, out, interrupts, intrAt,
                   handler_result>>

(***************************************************************************)
(* main, line 105: Sleep is entered, time passes, Sleep returns once the   *)
(* whole interval has elapsed.  Sleep is not an alertable wait: nothing    *)
(* but the passage of time ends it.                                        *)
(***************************************************************************)
MainSleep ==
    /\ pc = "spawn"
    /\ i >= num_threads
    /\ sleep_ms' = SleepArg(duration)
    /\ elapsed' = ZeroTime
    /\ pc' = "sleeping"
    /\ UNCHANGED <<argv, numProcs, exit_status, duration, num_cpus,
                   num_threads, registered, threads, i, g_stop_flag, workers,
                   wait_result, closed, out, err, attempts, interrupts,
                   intrAt, handler_result>>

Tick ==
    /\ pc = "sleeping"
    /\ TimeBefore(elapsed, DwordTime(sleep_ms))
    /\ elapsed' = IF elapsed.sec < DwordTime(sleep_ms).sec
                  THEN [elapsed EXCEPT !.sec = @ + 1]
                  ELSE DwordTime(sleep_ms)
    /\ UNCHANGED <<argv, numProcs, pc, exit_status, duration, num_cpus,
                   num_threads, registered, threads, i, g_stop_flag, workers,
                   sleep_ms, wait_result, closed, out, err, attempts,
                   interrupts, intrAt, handler_result>>

SleepReturns(passed, interval) == ~TimeBefore(passed, DwordTime(interval))

MainWake ==
    /\ pc = "sleeping"
    /\ SleepReturns(elapsed, sleep_ms)
    /\ pc' = "stop"
    /\ UNCHANGED <<argv, numProcs, exit_status, duration, num_cpus,
                   num_threads, registered, threads, i, g_stop_flag, workers,
                   sleep_ms, elapsed, wait_result, closed, out, err, attempts,
                   interrupts, intrAt, handler_result>>

(***************************************************************************)
(* main, line 107: InterlockedExchange(&g_stop_flag, 1).                   *)
(***************************************************************************)
MainSetStop ==
    /\ pc = "stop"
    /\ g_stop_flag' = InterlockedExchange(g_stop_flag, 1)
    /\ pc' = "join"
    /\ UNCHANGED <<argv, numProcs, exit_status, duration, num_cpus,
                   num_threads, registered, threads, i, workers, sleep_ms,
                   elapsed, wait_result, closed, out, err, attempts,
                   interrupts, intrAt, handler_result>>

(***************************************************************************)
(* main, line 109: WaitForMultipleObjects(num_threads, threads, TRUE,      *)
(* INFINITE).  The call fails at once, waiting for nothing, when the array *)
(* holds a handle that is not valid (the NULL a failed CreateThread left)  *)
(* or more than MAXIMUM_WAIT_OBJECTS handles; otherwise it returns when    *)
(* every thread of the array has ended.  main ignores the result.          *)
(***************************************************************************)
WaitFails(count, handles) ==
    \/ count > MAXIMUM_WAIT_OBJECTS
    \/ \E k \in 1..count : handles[k] = NULL

AllSignaled(count, handles) ==
    \A k \in 1..count : ~Running(handles[k])

\* Faulty variant: after the join main reports without releasing the handles.
MainJoin_SkipsClose ==
    /\ pc = "join"
    /\ \/ /\ WaitFails(num_threads, threads)
          /\ wait_result' = "WAIT_FAILED"
       \/ /\ ~WaitFails(num_threads, threads)
          /\ AllSignaled(num_threads, threads)
          /\ wait_result' = "WAIT_OBJECT_0"
    /\ pc' = "report"
    /\ UNCHANGED <<argv, numProcs, exit_status, duration, num_cpus,
                   num_threads, registered, threads, i, g_stop_flag, workers,
                   sleep_ms, elapsed, closed, out, err, attempts, interrupts,
                   intrAt, handler_result>>

MainJoin ==
    /\ pc = "join"
    /\ \/ /\ WaitFails(num_threads, threads)
          /\ wait_result' = "WAIT_FAILED"
       \/ /\ ~WaitFails(num_threads, threads)
          /\ AllSignaled(num_threads, threads)
          /\ wait_result' = "WAIT_OBJECT_0"
    /\ pc' = "close"
    /\ UNCHANGED <<argv, numProcs, exit_status, duration, num_cpus,
                   num_threads, registered, threads, i, g_stop_flag, workers,
                   sleep_ms, elapsed, closed, out, err, attempts, interrupts,
                   intrAt, handler_result>>

(***************************************************************************)
(* main, lines 111-116: CloseHandle on every handle that is not NULL.      *)
(***************************************************************************)
MainClose ==
    /\ pc = "close"
    /\ closed' = {threads[k] : k \in {n \in 1..num_threads : threads[n] # NULL}}
    /\ pc' = "report"
    /\ UNCHANGED <<argv, numProcs, exit_status, duration, num_cpus,
                   num_threads, registered, threads, i, g_stop_flag, workers,
                   sleep_ms, elapsed, wait_result, out, err, attempts,
                   interrupts, intrAt, handler_result>>

(***************************************************************************)
(* main, lines 118-119.                                                    *)
(***************************************************************************)
\* Faulty variant: a run with a failed spawn returns EXIT_FAILURE.
MainReport_FailsWhenPartial ==
    /\ pc = "report"
    /\ out' = Append(out, <<"Finalizado.">>)
    /\ exit_status' = IF \E k \in 1..num_threads : threads[k] = NULL
                      THEN EXIT_FAILURE ELSE EXIT_SUCCESS
    /\ pc' = "done"
    /\ workers' = ExitProcess(workers)
    /\ UNCHANGED <<argv, numProcs, duration, num_cpus, num_threads,
                   registered, threads, i, g_stop_flag, sleep_ms, elapsed,
                   wait_result, closed, err, attempts, interrupts, intrAt,
                   handler_result>>

MainReport ==
    /\ pc = "report"
    /\ out' = Append(out, <<"Finalizado.">>)
    /\ exit_status' = EXIT_SUCCESS
    /\ pc' = "done"
    /\ workers' = ExitProcess(workers)
    /\ UNCHANGED <<argv, numProcs, duration, num_cpus, num_threads,
                   registered, threads, i, g_stop_flag, sleep_ms, elapsed,
                   wait_result, closed, err, attempts, interrupts, intrAt,
                   handler_result>>

(***************************************************************************)
(* ConsoleCtrlHandler, lines 7-19: the OS calls the registered handler,    *)
(* on a thread of its own, with the type of the control event.  What the   *)
(* OS does with an event when no handler is registered, or after the       *)
(* handler has returned, is outside the program and not modelled.          *)
(***************************************************************************)
\* Faulty variant: the handler also writes a line to stdout.
ConsoleCtrlHandler_Prints(ctrl_type) ==
    /\ Alive
    /\ registered
    /\ IF ctrl_type \in HandledCtrlTypes
       THEN /\ interrupts < MaxInterrupts
            /\ interrupts' = interrupts + 1
            /\ g_stop_flag' = InterlockedExchange(g_stop_flag, 1)
            /\ handler_result' = "TRUE"
            /\ intrAt' = IF pc = "sleeping" /\ intrAt = NoInterrupt
                         THEN <<elapsed>> ELSE intrAt
            /\ out' = Append(out, <<"Interrompido">>)
       ELSE /\ handler_result' = "FALSE"
            /\ UNCHANGED <<g_stop_flag, interrupts, intrAt, out>>
    /\ UNCHANGED <<argv, numProcs, pc, exit_status, duration, num_cpus,
                   num_threads, registered, threads, i, workers, sleep_ms,
                   elapsed, wait_result, closed, err, attempts>>

ConsoleCtrlHandler(ctrl_type) ==
    /\ Alive
    /\ registered
    /\ IF ctrl_type \in HandledCtrlTypes
       THEN /\ interrupts < MaxInterrupts
            /\ interrupts' = interrupts + 1
            /\ g_stop_flag' = InterlockedExchange(g_stop_flag, 1)
            /\ handler_result' = "TRUE"
            /\ intrAt' = IF pc = "sleeping" /\ intrAt = NoInterrupt
                         THEN <<elapsed>> ELSE intrAt
       ELSE /\ handler_result' = "FALSE"
            /\ UNCHANGED <<g_stop_flag, interrupts, intrAt>>
    /\ UNCHANGED <<argv, numProcs, pc, exit_status, duration, num_cpus,
                   num_threads, registered, threads, i, workers, sleep_ms,
                   elapsed, wait_result, closed, out, err, attempts>>

(***************************************************************************)
(* worker_thread, lines 23-32: SetThreadAffinityMask succeeds or fails.    *)
(***************************************************************************)
\* Faulty variant: the loop runs its first batch before its first check.
WorkerPin_BatchFirst(h) ==
    /\ Alive
    /\ workers[h].pc = "pin"
    /\ \/ /\ workers' = [workers EXCEPT
                 ![h].mask = AffinityMask(workers[h].cpu_index),
                 ![h].pc = "batch"]
          /\ err' = err
       \/ /\ workers' = [workers EXCEPT ![h].pc = "batch"]
          /\ err' = err \cup {<<"Erro em SetThreadAffinityMask",
                                  workers[h].cpu_index>>}
    /\ UNCHANGED <<argv, numProcs, pc, exit_status, duration, num_cpus,
                   num_threads, registered, threads, i, g_stop_flag, sleep_ms,
                   elapsed, wait_result, closed, out, attempts, interrupts,
                   intrAt, handler_result>>

\* Faulty variant: a thread whose pinning failed returns at once.
WorkerPin_FailExits(h) ==
    /\ Alive
    /\ workers[h].pc = "pin"
    /\ \/ /\ workers' = [workers EXCEPT
                 ![h].mask = AffinityMask(workers[h].cpu_index),
                 ![h].pc = "check"]
          /\ err' = err
       \/ /\ workers' = [workers EXCEPT ![h].pc = "exited"]
          /\ err' = err \cup {<<"Erro em SetThreadAffinityMask",
                                  workers[h].cpu_index>>}
    /\ UNCHANGED <<argv, numProcs, pc, exit_status, duration, num_cpus,
                   num_threads, registered, threads, i, g_stop_flag, sleep_ms,
                   elapsed, wait_result, closed, out, attempts, interrupts,
                   intrAt, handler_result>>

WorkerPin(h) ==
    /\ Alive
    /\ workers[h].pc = "pin"
    /\ \/ /\ workers' = [workers EXCEPT
                 ![h].mask = AffinityMask(workers[h].cpu_index),
                 ![h].pc = "check"]
          /\ err' = err
       \/ /\ workers' = [workers EXCEPT ![h].pc = "check"]
          /\ err' = err \cup {<<"Erro em SetThreadAffinityMask",
                                  workers[h].cpu_index>>}
    /\ UNCHANGED <<argv, numProcs, pc, exit_status, duration, num_cpus,
                   num_threads, registered, threads, i, g_stop_flag, sleep_ms,
                   elapsed, wait_result, closed, out, attempts, interrupts,
                   intrAt, handler_result>>

(***************************************************************************)
(* worker_thread, lines 36-38 and 49: the check of the flag.               *)
(***************************************************************************)
WorkerCheck(h) ==
    /\ Alive
    /\ workers[h].pc = "check"
    /\ workers' = [workers EXCEPT ![h].pc =
                     IF StopRequested(g_stop_flag) THEN "exited" ELSE "batch"]
    /\ UNCHANGED <<argv, numProcs, pc, exit_status, duration, num_cpus,
                   num_threads, registered, threads, i, g_stop_flag, sleep_ms,
                   elapsed, wait_result, closed, out, err, attempts,
                   interrupts, intrAt, handler_result>>

(***************************************************************************)
(* worker_thread, lines 40-46: one batch; worked records that the thread   *)
(* has completed a batch.                                                  *)
(***************************************************************************)
\* Faulty variant: the flag is checked only after every second batch.
WorkerBatch_TwoPerCheck(h) ==
    /\ Alive
    /\ workers[h].pc = "batch"
    /\ workers' = [workers EXCEPT
           ![h].worked = TRUE,
           ![h].pc = IF workers[h].worked THEN "check" ELSE "batch"]
    /\ UNCHANGED <<argv, numProcs, pc, exit_status, duration, num_cpus,
                   num_threads, registered, threads, i, g_stop_flag, sleep_ms,
                   elapsed, wait_result, closed, out, err, attempts,
                   interrupts, intrAt, handler_result>>

WorkerBatch(h) ==
    /\ Alive
    /\ workers[h].pc = "batch"
    /\ workers' = [workers EXCEPT
           ![h].worked = TRUE,
           ![h].pc = "check"]
    /\ UNCHANGED <<argv, numProcs, pc, exit_status, duration, num_cpus,
                   num_threads, registered, threads, i, g_stop_flag, sleep_ms,
                   elapsed, wait_result, closed, out, err, attempts,
                   interrupts, intrAt, handler_result>>

Next ==
    \/ MainUsage
    \/ MainBadDuration
    \/ MainConfigure
    \/ MainRegister
    \/ MainAlloc
    \/ MainAllocFails
    \/ MainSpawn
    \/ MainSleep
    \/ Tick
    \/ MainWake
    \/ MainSetStop
    \/ MainJoin
    \/ MainClose
    \/ MainReport
    \/ \E ctrl_type \in CtrlTypes : ConsoleCtrlHandler(ctrl_type)
    \/ \E h \in Handles : WorkerPin(h)
    \/ \E h \in Handles : WorkerCheck(h)
    \/ \E h \in Handles : WorkerBatch(h)

Spec == Init /\ [][Next]_vars

(***************************************************************************)
(* The program on durations from the whole range of int.  The interval of  *)
(* such a Sleep call is too long to count in seconds: it passes in one     *)
(* step, Elapse.                                                           *)
(***************************************************************************)
INFINITE == [hi |-> Half - 1, lo |-> Half - 1]

MaxWholeSeconds == DwordTime(INFINITE).sec

IntMax == (Half \div 2 - 1) * Half + (Half - 1)

WideDurations ==
    {1, MaxWholeSeconds, MaxWholeSeconds + 1, 2 * MaxWholeSeconds,
     (Half \div 8) * Half, (Half \div 4) * Half, IntMax - 1, IntMax}

WideArgVectors ==
    {<<>>} \cup {<<Numeral(d)>> : d \in {0} \cup WideDurations}

WideInit ==
    /\ argv \in WideArgVectors
    /\ numProcs \in 0..MaxCpus
    /\ pc = "args"
    /\ exit_status = -1
    /\ duration = 0
    /\ num_cpus = 0
    /\ num_threads = 0
    /\ registered = FALSE
    /\ threads = <<>>
    /\ i = 0
    /\ g_stop_flag = 0
    /\ workers = <<>>
    /\ sleep_ms = SleepArg(0)
    /\ elapsed = ZeroTime
    /\ wait_result = "none"
    /\ closed = {}
    /\ out = <<>>
    /\ err = {}
    /\ attempts = <<>>
    /\ interrupts = 0
    /\ intrAt = NoInterrupt
    /\ handler_result = "none"

Elapse ==
    /\ pc = "sleeping"
    /\ TimeBefore(elapsed, DwordTime(sleep_ms))
    /\ elapsed' = DwordTime(sleep_ms)
    /\ UNCHANGED <<argv, numProcs, pc, exit_status, duration, num_cpus,
                   num_threads, registered, threads, i, g_stop_flag, workers,
                   sleep_ms, wait_result, closed, out, err, attempts,
                   interrupts, intrAt, handler_result>>

WideNext ==
    \/ MainUsage
    \/ MainBadDuration
    \/ MainConfigure
    \/ MainRegister
    \/ MainAlloc
    \/ MainAllocFails
    \/ MainSpawn
    \/ MainSleep
    \/ Elapse
    \/ MainWake
    \/ MainSetStop
    \/ MainJoin
    \/ MainClose
    \/ MainReport
    \/ \E ctrl_type \in CtrlTypes : ConsoleCtrlHandler(ctrl_type)
    \/ \E h \in Handles : WorkerPin(h)
    \/ \E h \in Handles : WorkerCheck(h)
    \/ \E h \in Handles : WorkerBatch(h)

WideSpec == WideInit /\ [][WideNext]_vars

(***************************************************************************)
(* Scheduling: main, the clock and every created thread keep running.      *)
(***************************************************************************)
MainNext ==
    \/ MainUsage \/ MainBadDuration \/ MainConfigure \/ MainRegister
    \/ MainAlloc \/ MainAllocFails \/ MainSpawn \/ MainSleep \/ MainWake
    \/ MainSetStop \/ MainJoin \/ MainClose \/ MainReport

WorkerNext(h) ==
    h \in Handles /\ (WorkerPin(h) \/ WorkerCheck(h) \/ WorkerBatch(h))

FairSpec ==
    /\ Spec
    /\ WF_vars(MainNext)
    /\ WF_vars(Tick)
    /\ \A h \in 1..MaxCpus : WF_vars(WorkerNext(h))

(***************************************************************************)
(* Vocabulary of the properties.                                           *)
(***************************************************************************)
Configured == num_cpus # 0

Allocated == threads # <<>>

MainHasSet == pc = "join" \/ wait_result # "none"

Completed == pc = "done" /\ wait_result # "none"

Exited(h) == workers[h].pc = "exited"

SomeSpawnFailed ==
    \E k \in 1..Len(threads) : attempts[k] > 0 /\ threads[k] = NULL

Reports == Cardinality({k \in 1..Len(out) : out[k] = <<"Finalizado.">>})

IsPositiveNumeral(s) ==
    /\ s # <<>>
    /\ \A k \in 1..Len(s) : IsDigit(s[k])
    /\ \E k \in 1..Len(s) : s[k] # "0"

ArgsRejected == argc < 2 \/ atoi(argv[1]) <= 0

AllocFailed == <<"Erro de memoria">> \in err

C2_JoinIsBarrier ==
    pc \in {"close", "report"} => \A h \in Handles : Exited(h)

(***************************************************************************)
(* C3: with no control event, a run whose timed wait has elapsed ends in   *)
(* normal completion with every created thread having observed the flag   *)
(* and exited and the join having returned.  Stated for the final state   *)
(* of the runs in which every created thread was scheduled (it completed   *)
(* a batch).  Terminates is the part about main alone.                     *)
(***************************************************************************)
C3_WorkersObserveStop ==
    (/\ Completed
     /\ interrupts = 0 /\ handler_result = "none"
     /\ \A h \in Handles : workers[h].worked)
        => /\ exit_status = EXIT_SUCCESS
           /\ \A h \in Handles : Exited(h)

Terminates == (pc = "sleeping") ~> (pc = "done" /\ exit_status = EXIT_SUCCESS)

(***************************************************************************)
(* C4: num_threads is in 1..num_cpus for every request: no request gives   *)
(* num_cpus, a request of 0 or less gives 1, a request above num_cpus      *)
(* gives num_cpus, a request in the range is kept.                         *)
(***************************************************************************)
C4_EffectiveThreadCount ==
    Configured =>
        /\ num_cpus = (IF numProcs < 1 THEN 1 ELSE numProcs)
        /\ num_threads \in 1..num_cpus
        /\ argc < 3 => num_threads = num_cpus
        /\ \A n \in (-1)..(MaxCpus + 1) :
              (argc >= 3 /\ argv[2] = Numeral(n)) =>
                  /\ n <= 0 => num_threads = 1
                  /\ n > num_cpus => num_threads = num_cpus
                  /\ n \in 1..num_cpus => num_threads = n

C4_Witness ==
    /\ Configured
    /\ argc >= 3
    /\ argv[2] = Numeral(MaxCpus + 1)
    /\ num_cpus = MaxCpus
    /\ num_threads = MaxCpus

(***************************************************************************)
(* C5: the stop flag is monotonic: no step takes it from stopping back to  *)
(* running, so a thread that has observed stopping (and exited) is never   *)
(* followed by a state in which the flag reads running.                    *)
(***************************************************************************)
C5_StopMonotonic ==
    [][/\ StopRequested(g_stop_flag) => StopRequested(g_stop_flag')
       /\ (\E h \in Handles : Exited(h)) => StopRequested(g_stop_flag')]_vars

C5_Witness ==
    /\ StopRequested(g_stop_flag)
    /\ interrupts >= 2
    /\ MainHasSet
    /\ \E h \in Handles : Exited(h)
    /\ \E h \in Handles : Running(h)

(***************************************************************************)
(* C6: the thread created by the spawn attempt for index k runs with       *)
(* cpu_index k, every cpu_index is in 0..num_threads-1 and below num_cpus, *)
(* no two threads have the same cpu_index, and a thread pins itself to     *)
(* the one processor of its index.                                         *)
(***************************************************************************)
C6_UniqueIndices ==
    /\ \A k \in 1..Len(threads) :
          threads[k] # NULL =>
              /\ threads[k] \in Handles
              /\ workers[threads[k]].cpu_index = k - 1
    /\ \A h \in Handles :
          /\ workers[h].cpu_index \in 0..(num_threads - 1)
          /\ workers[h].cpu_index < num_cpus
          /\ workers[h].mask \in {0, 2 ^ workers[h].cpu_index}
          /\ \E k \in 1..Len(threads) : threads[k] = h
    /\ \A g, h \in Handles :
          g # h => workers[g].cpu_index # workers[h].cpu_index

C6_Witness ==
    /\ Len(threads) >= 2
    /\ threads[1] = NULL
    /\ threads[2] # NULL
    /\ workers[threads[2]].mask = 2

C8_BadDurationRejected ==
    (argc < 2 \/ ~IsPositiveNumeral(argv[1])) =>
        /\ pc \in {"args", "done"}
        /\ ~registered
        /\ workers = <<>>
        /\ ~StopRequested(g_stop_flag)
        /\ pc = "done" => exit_status = EXIT_FAILURE /\ err # {}

(***************************************************************************)
(* C9: every index 0..num_threads-1 is attempted once and never again,     *)
(* whatever attempts fail; a failed attempt changes no thread already      *)
(* created; and a run in which every attempt failed still waits for the    *)
(* whole duration and ends in normal completion with no thread.            *)
(***************************************************************************)
C9_SpawnFailureIsolated ==
    /\ [](Allocated =>
            /\ \A k \in 1..num_threads :
                  attempts[k] = (IF pc = "spawn" /\ k > i THEN 0 ELSE 1)
            /\ (pc \notin {"spawn", "sleeping"} /\ pc # "done") =>
                  elapsed = [sec |-> duration, ms |-> 0]
            /\ Completed =>
                  /\ elapsed = [sec |-> duration, ms |-> 0]
                  /\ exit_status = EXIT_SUCCESS)
    /\ [][(pc = "spawn" /\ i' = i + 1 /\ threads'[i + 1] = NULL)
             => workers' = workers]_vars

C9_Witness ==
    /\ Completed
    /\ exit_status = EXIT_SUCCESS
    /\ num_threads >= 2
    /\ workers = <<>>

(***************************************************************************)
(* C10: a finished run has exit status failure exactly when the arguments  *)
(* did not pass validation or the allocation failed, and then no thread    *)
(* was created; every other finished run has exit status success, whatever *)
(* registration, spawn, pinning and control events did.                    *)
(***************************************************************************)
C10_ExitStatus ==
    pc = "done" =>
        /\ exit_status \in {EXIT_SUCCESS, EXIT_FAILURE}
        /\ exit_status = EXIT_FAILURE <=> (ArgsRejected \/ AllocFailed)
        /\ exit_status = EXIT_FAILURE => workers = <<>>
        /\ exit_status = EXIT_SUCCESS => Configured /\ Allocated /\ Reports = 1

C10_Witness ==
    /\ pc = "done"
    /\ exit_status = EXIT_SUCCESS
    /\ interrupts >= 1
    /\ SomeSpawnFailed
    /\ \E h \in Handles :
          <<"Erro em SetThreadAffinityMask", workers[h].cpu_index>> \in err

(***************************************************************************)
(* C11: a failed registration of the handler is only a warning.  The       *)
(* handler is then never called, and main goes on as it does after a       *)
(* successful registration: it does not end at the registration, every     *)
(* index is attempted, the wait lasts its whole interval, main sets the    *)
(* flag, makes the join (which, when it waits, returns only with every     *)
(* thread exited) and returns success, unless the allocation fails.        *)
(***************************************************************************)
RegistrationFailed == <<"Aviso">> \in err

C11_RegistrationFailureNonFatal ==
    RegistrationFailed =>
        /\ ~registered
        /\ interrupts = 0 /\ handler_result = "none"
        /\ pc \notin {"args", "register"}
        /\ pc \in {"sleeping", "stop", "join", "close", "report"} =>
              \A k \in 1..num_threads : attempts[k] = 1
        /\ pc \in {"stop", "join", "close", "report"} =>
              elapsed = DwordTime(sleep_ms)
        /\ pc \in {"stop", "sleeping", "spawn", "alloc"} =>
              ~StopRequested(g_stop_flag)
        /\ pc \in {"join", "close", "report"} => StopRequested(g_stop_flag)
        /\ pc \in {"close", "report"} =>
              /\ wait_result # "none"
              /\ wait_result = "WAIT_OBJECT_0" => \A h \in Handles : Exited(h)
        /\ pc = "done" =>
              \/ AllocFailed /\ exit_status = EXIT_FAILURE
              \/ /\ Completed
                 /\ exit_status = EXIT_SUCCESS
                 /\ StopRequested(g_stop_flag)
                 /\ Reports = 1
                 /\ elapsed = DwordTime(sleep_ms)
                 /\ \A h \in Handles : ~Running(h)

C11_Witness ==
    /\ RegistrationFailed
    /\ Completed
    /\ exit_status = EXIT_SUCCESS
    /\ Len(workers) >= 2
    /\ \A h \in Handles : Exited(h) /\ workers[h].worked

(***************************************************************************)
(* C12: a thread whose pinning failed goes on like a pinned one.  The      *)
(* failing step only writes the warning and takes that thread to its       *)
(* first check; it changes no other thread and nothing of main.  From      *)
(* then on the thread, pinned or not, begins a batch after every check     *)
(* that reads the flag as running, returns to the check after the batch,   *)
(* and exits at the first check that reads the flag as stopping: a thread  *)
(* has exited only if the flag is stopping.                                *)
(***************************************************************************)
PinWarned(h) ==
    <<"Erro em SetThreadAffinityMask", workers[h].cpu_index>> \in err

Unpinned(h) == PinWarned(h) /\ workers[h].mask = 0

C12_PinFailureNonFatal ==
    /\ [](\A h \in Handles :
            /\ Exited(h) => StopRequested(g_stop_flag)
            /\ PinWarned(h) => (workers[h].pc # "pin" /\ Unpinned(h)))
    /\ [][\A h \in Handles :
            (/\ workers[h].pc = "pin"
             /\ workers'[h].pc \notin {"pin", "terminated"}
             /\ workers'[h].mask = 0)
                => /\ workers' = [workers EXCEPT ![h].pc = "check"]
                   /\ err' = err \cup {<<"Erro em SetThreadAffinityMask",
                                           workers[h].cpu_index>>}
                   /\ UNCHANGED <<pc, exit_status, num_threads, threads, i,
                                  g_stop_flag, sleep_ms, elapsed, wait_result,
                                  closed, out, attempts>>]_vars
    /\ [][\A h \in Handles :
            (/\ workers[h].pc \in {"check", "batch"}
             /\ workers'[h] # workers[h]
             /\ workers'[h].pc # "terminated")
                => /\ workers[h].pc = "check" =>
                        workers'[h].pc = (IF StopRequested(g_stop_flag)
                                          THEN "exited" ELSE "batch")
                   /\ workers[h].pc = "batch" =>
                        workers'[h].pc = "check" /\ workers'[h].worked
                   /\ workers'[h].mask = workers[h].mask]_vars

C12_Witness ==
    /\ Completed
    /\ wait_result = "WAIT_OBJECT_0"
    /\ \E g, h \in Handles :
          /\ Unpinned(h) /\ workers[h].worked /\ Exited(h)
          /\ ~Unpinned(g) /\ workers[g].worked /\ Exited(g)

(***************************************************************************)
(* C13: main takes its steps in one order: registration, the spawn         *)
(* attempts, the whole timed wait, its own set of the flag, the join, the  *)
(* release of the handles, the report.  Each step is taken only with the   *)
(* earlier ones done: no thread exists and no index has been attempted     *)
(* before the registration attempt, the wait is entered with every index   *)
(* attempted, main sets the flag with the whole wait elapsed, joins with   *)
(* the flag set, releases every handle after the join, and reports, once,  *)
(* with the handles released and the flag stopping.                        *)
(***************************************************************************)
MainOrder ==
    {<<"args", "register">>, <<"register", "alloc">>, <<"alloc", "spawn">>,
     <<"spawn", "sleeping">>, <<"sleeping", "stop">>, <<"stop", "join">>,
     <<"join", "close">>, <<"close", "report">>, <<"report", "done">>,
     <<"args", "done">>, <<"alloc", "done">>}

OpenHandles == {threads[k] : k \in 1..Len(threads)} \ {NULL}

C13_StepOrder ==
    /\ [][pc' # pc => <<pc, pc'>> \in MainOrder]_vars
    /\ [](/\ pc \in {"args", "register"} =>
              workers = <<>> /\ ~Allocated /\ ~registered
          /\ pc \in {"args", "register", "alloc", "spawn"} =>
              sleep_ms = SleepArg(0) /\ elapsed = ZeroTime
          /\ pc = "spawn" =>
              \A k \in 1..num_threads :
                  attempts[k] = (IF k > i THEN 0 ELSE 1)
          /\ pc \in {"sleeping", "stop", "join", "close", "report"} =>
              /\ \A k \in 1..num_threads : attempts[k] = 1
              /\ Len(workers) = Cardinality(OpenHandles)
          /\ pc \in {"args", "register", "alloc", "spawn", "sleeping"} =>
              /\ ~MainHasSet
              /\ interrupts = 0 => ~StopRequested(g_stop_flag)
          /\ pc \in {"stop", "join", "close", "report"} \/ Completed =>
              elapsed = DwordTime(sleep_ms)
          /\ pc \in {"join", "close", "report"} \/ Completed =>
              StopRequested(g_stop_flag)
          /\ pc \in {"args", "register", "alloc", "spawn", "sleeping",
                      "stop", "join"} =>
              wait_result = "none" /\ closed = {}
          /\ pc = "close" => wait_result # "none" /\ closed = {}
          /\ pc = "report" \/ Completed =>
              wait_result # "none" /\ closed = OpenHandles
          /\ Reports = (IF Completed THEN 1 ELSE 0)
          /\ Reports = 1 =>
              StopRequested(g_stop_flag) /\ exit_status = EXIT_SUCCESS)

C13_Witness ==
    /\ Completed
    /\ Reports = 1
    /\ Cardinality(closed) = 2
    /\ registered
    /\ interrupts = 0
    /\ wait_result = "WAIT_OBJECT_0"

(***************************************************************************)
(* C14: once the flag is stopping, a running thread does at most one more  *)
(* batch.  With the flag stopping, no thread goes from a check into a      *)
(* batch; a thread inside a batch ends it at a check, and its next step    *)
(* is then the exit.  The exit step changes the position of that thread    *)
(* and nothing else: no output, no other thread, nothing of main.          *)
(* StopDrains is the same bound as progress: under fair scheduling, once   *)
(* the flag is stopping and main is past the spawn loop, no thread stays   *)
(* running.                                                                *)
(***************************************************************************)
StopDrains ==
    (/\ StopRequested(g_stop_flag)
     /\ pc \notin {"args", "register", "alloc", "spawn"})
        ~> (\A h \in Handles : ~Running(h))

C14_OneBatchLatency ==
    /\ [][\A h \in Handles :
            (StopRequested(g_stop_flag) /\ workers'[h] # workers[h])
                => /\ workers[h].pc = "pin" =>
                        workers'[h].pc \in {"check", "terminated"}
                   /\ workers[h].pc = "check" =>
                        workers'[h].pc \in {"exited", "terminated"}
                   /\ workers[h].pc = "batch" =>
                        workers'[h].pc \in {"check", "terminated"}
                   /\ workers[h].pc \notin {"exited", "terminated"}]_vars
    /\ [][\A h \in Handles :
            (workers[h].pc # "exited" /\ workers'[h].pc = "exited")
                => /\ workers[h].pc = "check"
                   /\ StopRequested(g_stop_flag)
                   /\ workers' = [workers EXCEPT ![h].pc = "exited"]
                   /\ UNCHANGED <<argv, numProcs, pc, exit_status, duration,
                                  num_cpus, num_threads, registered, threads,
                                  i, g_stop_flag, sleep_ms, elapsed,
                                  wait_result, closed, out, err, attempts,
                                  interrupts, intrAt, handler_result>>]_vars

C14_Witness ==
    /\ pc = "sleeping"
    /\ StopRequested(g_stop_flag)
    /\ \E g, h \in Handles :
          /\ Exited(g) /\ workers[g].worked
          /\ workers[h].pc = "batch"

(***************************************************************************)
(* C15: a call of the handler for Ctrl+C, Ctrl+Break, console close or     *)
(* system shutdown stores stopping in the flag, returns TRUE, and changes  *)
(* nothing else of the program: no output, no thread created, joined or    *)
(* changed, no handle, nothing of main's position and data.  The call is   *)
(* one step, taken whatever main and the threads are doing.  The calls of  *)
(* the handler are the steps that change interrupts or handler_result.     *)
(***************************************************************************)
C15_HandlerOnlySetsFlag ==
    /\ [][\A ctrl_type \in {CTRL_C_EVENT, CTRL_BREAK_EVENT,
                              CTRL_CLOSE_EVENT, CTRL_SHUTDOWN_EVENT} :
              ConsoleCtrlHandler(ctrl_type)
                  => /\ interrupts' = interrupts + 1
                     /\ g_stop_flag' = 1
                     /\ handler_result' = "TRUE"]_vars
    /\ [][(interrupts' # interrupts \/ handler_result' # handler_result)
              => /\ g_stop_flag' \in {g_stop_flag, 1}
                 /\ UNCHANGED <<argv, numProcs, pc, exit_status, duration,
                                num_cpus, num_threads, registered, threads,
                                i, workers, sleep_ms, elapsed, wait_result,
                                closed, out, err, attempts>>]_vars

C15_Witness ==
    /\ interrupts >= 2
    /\ handler_result = "TRUE"
    /\ pc = "sleeping"
    /\ intrAt # NoInterrupt
    /\ out = <<<<"Estressando", duration, num_threads, num_cpus>>>>
    /\ \E h \in Handles : workers[h].pc = "batch"

(***************************************************************************)
(* C16: for every accepted duration the interval given to Sleep is         *)
(* duration * 1000 milliseconds, that is duration whole seconds: the       *)
(* 32-bit product does not wrap and is never INFINITE, and main is past    *)
(* the wait only with duration seconds elapsed.  SleepNeverInfinite is     *)
(* the part about INFINITE alone.                                          *)
(***************************************************************************)
SleepCalled ==
    pc \in {"sleeping", "stop", "join", "close", "report"} \/ Completed

C16_SleepIsDuration ==
    SleepCalled =>
        /\ DwordTime(sleep_ms) = [sec |-> duration, ms |-> 0]
        /\ sleep_ms # INFINITE
        /\ pc # "sleeping" => elapsed = [sec |-> duration, ms |-> 0]

SleepNeverInfinite == SleepCalled => sleep_ms # INFINITE

(***************************************************************************)
(* C17: every access to the flag that has been made is an atomic           *)
(* operation with acquire/release or stronger ordering: the store of main, *)
(* the store of the handler and the poll of every thread.                  *)
(***************************************************************************)
AcquireReleaseOrStronger ==
    {"InterlockedExchange", "InterlockedExchangeAcquire",
     "InterlockedCompareExchange", "InterlockedOr", "atomic_load",
     "atomic_store", "atomic_exchange"}

HasPolled(h) ==
    workers[h].worked \/ workers[h].pc \in {"batch", "exited"}

C17_AtomicAccesses ==
    /\ MainHasSet => FlagAccess.main \in AcquireReleaseOrStronger
    /\ interrupts > 0 => FlagAccess.handler \in AcquireReleaseOrStronger
    /\ \A h \in Handles :
          HasPolled(h) => FlagAccess.worker \in AcquireReleaseOrStronger

(***************************************************************************)
(* C18: the flag is checked before the first batch.  A thread is created   *)
(* ahead of its first check with no batch done, and while the flag is      *)
(* stopping a thread that has done no batch and is not inside one never    *)
(* does one: it exits at its first check.  main is not changed by that:    *)
(* it leaves the spawn loop only with every index attempted, and a run     *)
(* with a thread that exited without a batch still waits the whole         *)
(* interval, makes the join (which, when it waits, returns with every      *)
(* thread exited) and returns success.                                     *)
(***************************************************************************)
ZeroBatch(h) == Exited(h) /\ ~workers[h].worked

C18_CheckBeforeFirstBatch ==
    /\ [][\A h \in 1..Len(workers') :
            /\ h \notin Handles =>
                  workers'[h].pc = "pin" /\ ~workers'[h].worked
            /\ (/\ h \in Handles
                /\ StopRequested(g_stop_flag)
                /\ ~workers[h].worked
                /\ workers[h].pc \in {"pin", "check"})
                   => /\ ~workers'[h].worked
                      /\ workers'[h].pc \in
                            {"pin", "check", "exited", "terminated"}
                      /\ workers[h].pc = "check" =>
                            workers'[h].pc \in {"check", "exited", "terminated"}]_vars
    /\ [][(pc = "spawn" /\ pc' # pc) =>
              /\ pc' = "sleeping"
              /\ \A k \in 1..num_threads : attempts[k] = 1]_vars
    /\ []((\E h \in Handles : ZeroBatch(h)) =>
              /\ StopRequested(g_stop_flag)
              /\ pc \in {"stop", "join", "close", "report"} =>
                    elapsed = DwordTime(sleep_ms)
              /\ pc \in {"close", "report"} =>
                    /\ wait_result # "none"
                    /\ wait_result = "WAIT_OBJECT_0" =>
                          \A h \in Handles : Exited(h)
              /\ pc = "done" =>
                    /\ Completed
                    /\ exit_status = EXIT_SUCCESS
                    /\ elapsed = DwordTime(sleep_ms)
                    /\ \A k \in 1..num_threads : attempts[k] = 1)

C18_Witness ==
    /\ pc = "spawn"
    /\ num_threads >= 2
    /\ i = 1
    /\ interrupts >= 1
    /\ \E h \in Handles : ZeroBatch(h)

(***************************************************************************)
(* C19: a call of the handler for any other control event (log-off, the    *)
(* one the OS delivers besides the four) leaves the flag as it is and      *)
(* returns FALSE.                                                          *)
(* The flag therefore changes only in a call for one of the four handled   *)
(* events or in main's own set after the wait, and it is stopping only if  *)
(* one of these has happened.                                              *)
(***************************************************************************)
C19_UnhandledLeavesFlag ==
    /\ [][\A ctrl_type \in CtrlTypes \ {CTRL_C_EVENT, CTRL_BREAK_EVENT,
                                         CTRL_CLOSE_EVENT, CTRL_SHUTDOWN_EVENT} :
              ConsoleCtrlHandler(ctrl_type)
                  => /\ g_stop_flag' = g_stop_flag
                     /\ interrupts' = interrupts
                     /\ handler_result' = "FALSE"]_vars
    /\ [][g_stop_flag' # g_stop_flag
              => \/ pc = "stop" /\ pc' = "join"
                 \/ interrupts' = interrupts + 1 /\ handler_result' = "TRUE"]_vars
    /\ [](StopRequested(g_stop_flag) => (MainHasSet \/ interrupts > 0))
    /\ []((handler_result = "FALSE" /\ interrupts = 0 /\ ~MainHasSet)
              => ~StopRequested(g_stop_flag))

C19_Witness ==
    /\ handler_result = "FALSE"
    /\ interrupts = 0
    /\ pc = "sleeping"
    /\ elapsed.sec >= 1
    /\ ~StopRequested(g_stop_flag)
    /\ \E h \in Handles : workers[h].worked /\ workers[h].pc = "batch"

====
